---- MODULE Spec2Model ----
(***************************************************************************)
(* Colour resolution layer of lipgloss (color.go): the two package-wide    *)
(* detectors (colour profile, dark background), their sync.Once guards,    *)
(* the shared sync.RWMutex, and the six TerminalColor descriptor variants. *)
(*                                                                         *)
(* Every goroutine runs one exported call at a time.  A call is a fixed    *)
(* sequence of reads of the detectors (its script) followed by a pure      *)
(* computation on what was read; each detector read is stepped through     *)
(* RLock / flag test / Once.Do / detection / read / RUnlock.               *)
(***************************************************************************)
EXTENDS Integers, Sequences, FiniteSets, TLC

\* ------------------------------------------------------------------ bounds
NumThreads == 2
\* calls per behaviour: of the detector and value() specifications, and of
\* the specifications with the wide sets of calls
MaxCalls == 3
MaxCallsWide == 2

Threads == 1..NumThreads
NoThread == 0

\* --------------------------------------------------------------- profiles
\* termenv.Profile is an integer type with four named values; any other
\* integer is representable and is written Profile(7) here.
ValidProfiles == {"TrueColor", "ANSI256", "ANSI", "Ascii"}
UnknownProfile == "Profile(7)"
Profiles == ValidProfiles \cup {UnknownProfile}
\* the zero value of termenv.Profile (Profile(0))
ZeroProfile == "TrueColor"

\* ---------------------------------------------------------------- strings
\* A Go string is modelled as the sequence of its characters.
Digits == <<"0", "1", "2", "3", "4", "5", "6", "7", "8", "9">>
HexDigits == Digits \o <<"a", "b", "c", "d", "e", "f">>

IndexOf(seq, ch) ==
    IF \E i \in 1..Len(seq) : seq[i] = ch
    THEN CHOOSE i \in 1..Len(seq) : seq[i] = ch
    ELSE 0

RECURSIVE DigitsValue(_)
DigitsValue(s) ==
    IF s = <<>> THEN 0
    ELSE 10 * DigitsValue(SubSeq(s, 1, Len(s) - 1)) + (IndexOf(Digits, s[Len(s)]) - 1)

\* strconv.Atoi: optional sign, then one or more decimal digits
Atoi(s) ==
    LET signed == s # <<>> /\ s[1] \in {"+", "-"}
        body == IF signed THEN Tail(s) ELSE s
    IN  IF body = <<>> \/ \E i \in 1..Len(body) : IndexOf(Digits, body[i]) = 0
        THEN [ok |-> FALSE, n |-> 0]
        ELSE [ok |-> TRUE,
              n |-> IF signed /\ s[1] = "-" THEN 0 - DigitsValue(body)
                    ELSE DigitsValue(body)]

\* the one element of a singleton set (used to bind a value once)
Only(S) == CHOOSE x \in S : TRUE

\* fmt.Sscanf verb %1x / %02x: at least one and at most w hex digits
ScanHex(s, w) ==
    Only({[ok |-> n > 0,
           v |-> IF n = 0 THEN 0
                 ELSE IF n = 1 THEN IndexOf(HexDigits, s[1]) - 1
                 ELSE 16 * (IndexOf(HexDigits, s[1]) - 1) + (IndexOf(HexDigits, s[2]) - 1),
           rest |-> SubSeq(s, n + 1, Len(s))] :
          n \in {IF s # <<>> /\ IndexOf(HexDigits, s[1]) # 0
                 THEN IF w = 2 /\ Len(s) >= 2 /\ IndexOf(HexDigits, s[2]) # 0 THEN 2 ELSE 1
                 ELSE 0}})

\* ------------------------------------------------------------- go-colorful
\* A colorful.Color built by Hex has channels k/255; it is held as <<r, g, b>>
\* with r, g, b the numerators 0..255.
Black == <<0, 0, 0>>

\* colorful.Hex: "#rrggbb", or "#rgb" when the string has four characters
colorful_Hex(scol) ==
    IF scol = <<>> \/ scol[1] # "#" THEN [ok |-> FALSE, rgb |-> Black]
    ELSE LET w == IF Len(scol) = 4 THEN 1 ELSE 2
             f == IF Len(scol) = 4 THEN 17 ELSE 1
         IN  Only(UNION {UNION {
                {IF r.ok /\ g.ok /\ b.ok
                 THEN [ok |-> TRUE, rgb |-> <<f * r.v, f * g.v, f * b.v>>]
                 ELSE [ok |-> FALSE, rgb |-> Black] :
                    b \in {ScanHex(g.rest, w)}} :
                    g \in {ScanHex(r.rest, w)}} :
                    r \in {ScanHex(Tail(scol), w)}})

\* Go leaves the conversion of a float that the integer type cannot hold
\* implementation-dependent: the builds wrap (two's complement) or saturate.
ImplDependentUint8(n) == {n % 256, IF n < 0 THEN 0 ELSE 255}
\* the same for NaN and the infinities
NonFiniteUint8 == {0, 255}

\* One channel of Color.BlendRgb(c2, t).Hex() with t = pos/steps computed in
\* float64: uint8((a/255 + t*(b/255 - a/255))*255.0 + 0.5).
BlendChannel(a, b, pos, steps) ==
    IF steps = 0 THEN NonFiniteUint8
    ELSE LET num == 2 * steps * a + 2 * pos * (b - a) + steps
             den == 2 * steps
             T == IF num >= 0 THEN num \div den ELSE 0 - ((0 - num) \div den)
             \* an exact integer may fall on either side in floating point
             near == IF num % den = 0 /\ pos # 0 /\ pos # steps /\ num # 0
                     THEN IF num > 0 THEN {T - 1, T} ELSE {T, T + 1}
                     ELSE {T}
         IN  UNION {IF n \in 0..255 THEN {n} ELSE ImplDependentUint8(n) : n \in near}

Byte2(v) == <<HexDigits[(v \div 16) + 1], HexDigits[(v % 16) + 1]>>
\* Color.Hex: fmt.Sprintf("#%02x%02x%02x", ...)
FormatHex(rgb) == <<"#">> \o Byte2(rgb[1]) \o Byte2(rgb[2]) \o Byte2(rgb[3])

\* Color.RGBA: uint32(c*65535.0 + 0.5) per channel, alpha 0xFFFF
colorful_RGBA(rgb) == <<257 * rgb[1], 257 * rgb[2], 257 * rgb[3], 65535>>

\* ----------------------------------------------------------------- termenv
\* termenv.Color handles: RGBColor(hex), ANSIColor(idx), ANSI256Color(idx),
\* NoColor{}, the nil interface; "panic" stands for a run-time panic.
Handle(k, h, i) == [kind |-> k, hex |-> h, idx |-> i]
Nil == Handle("nil", <<>>, 0 - 1)
NoColorHandle == Handle("NoColor", <<>>, 0 - 1)
Panic == Handle("panic", <<>>, 0 - 1)

\* the first sixteen entries of termenv's ansiHex table
Ansi16 == << <<0, 0, 0>>, <<128, 0, 0>>, <<0, 128, 0>>, <<128, 128, 0>>,
             <<0, 0, 128>>, <<128, 0, 128>>, <<0, 128, 128>>, <<192, 192, 192>>,
             <<128, 128, 128>>, <<255, 0, 0>>, <<0, 255, 0>>, <<255, 255, 0>>,
             <<0, 0, 255>>, <<255, 0, 255>>, <<0, 255, 255>>, <<255, 255, 255>> >>
CubeLevel == <<0, 95, 135, 175, 215, 255>>

\* ansiHex[i] for i in 0..255: 16 named colours, 6x6x6 cube, 24 greys
AnsiRGB(i) ==
    IF i < 16 THEN Ansi16[i + 1]
    ELSE IF i < 232
         THEN <<CubeLevel[((i - 16) \div 36) + 1],
                CubeLevel[(((i - 16) \div 6) % 6) + 1],
                CubeLevel[((i - 16) % 6) + 1]>>
         ELSE <<8 + 10 * (i - 232), 8 + 10 * (i - 232), 8 + 10 * (i - 232)>>

v2ci(v) == IF v < 48 THEN 0 ELSE IF v < 115 THEN 1 ELSE (v - 35) \div 40

\* hexToANSI256Color: the cube entry around the colour, or a grey when that
\* is nearer in HSLuv; the distance is not computed here, so an inexact
\* colour may map to the cube entry or to any grey.
hexToANSI256Color(rgb) ==
    LET ci == 36 * v2ci(rgb[1]) + 6 * v2ci(rgb[2]) + v2ci(rgb[3])
    IN  IF AnsiRGB(16 + ci) = rgb THEN {16 + ci} ELSE {16 + ci} \cup (232..255)

\* ansi256ToANSIColor: the first of the 16 colours at least HSLuv distance;
\* an inexact colour may map to any of them.  ansiHex[c] panics off the table.
ansi256ToANSIColor(c) ==
    IF c \notin 0..255 THEN {Panic}
    ELSE UNION {
            IF \E j \in 0..15 : AnsiRGB(j) = x
            THEN {Handle("ANSIColor", <<>>, CHOOSE j \in 0..15 :
                      AnsiRGB(j) = x /\ \A k \in 0..(j - 1) : AnsiRGB(k) # x)}
            ELSE {Handle("ANSIColor", <<>>, j) : j \in 0..15}
            : x \in {AnsiRGB(c)}}

\* Profile.Convert
Profile_Convert(p, c) ==
    IF p = "Ascii" THEN {NoColorHandle}
    ELSE CASE c.kind = "ANSIColor" -> {c}
           [] c.kind = "ANSI256Color" ->
                IF p = "ANSI" THEN ansi256ToANSIColor(c.idx) ELSE {c}
           [] c.kind = "RGBColor" ->
                UNION {
                    IF ~h.ok THEN {Nil}
                    ELSE IF p = "TrueColor" THEN {c}
                    ELSE IF p = "ANSI"
                         THEN UNION {ansi256ToANSIColor(i) : i \in hexToANSI256Color(h.rgb)}
                         ELSE {Handle("ANSI256Color", <<>>, i) : i \in hexToANSI256Color(h.rgb)}
                    : h \in {colorful_Hex(c.hex)}}
           [] OTHER -> {c}

\* Profile.Color
Profile_Color(p, s) ==
    IF s = <<>> THEN {Nil}
    ELSE IF s[1] = "#" THEN Profile_Convert(p, Handle("RGBColor", s, 0 - 1))
    ELSE LET a == Atoi(s) IN
         IF ~a.ok THEN {Nil}
         ELSE Profile_Convert(p, Handle(IF a.n < 16 THEN "ANSIColor" ELSE "ANSI256Color",
                                        <<>>, a.n))

\* termenv.ConvertToRGB: the hex of the handle, black when there is none
ConvertToRGB(c) ==
    CASE c.kind = "panic" -> [ok |-> FALSE, rgb |-> Black]
      [] c.kind = "RGBColor" -> [ok |-> TRUE, rgb |-> colorful_Hex(c.hex).rgb]
      [] c.kind \in {"ANSIColor", "ANSI256Color"} ->
            IF c.idx \in 0..255 THEN [ok |-> TRUE, rgb |-> AnsiRGB(c.idx)]
            ELSE [ok |-> FALSE, rgb |-> Black]
      [] OTHER -> [ok |-> TRUE, rgb |-> Black]

\* ------------------------------------------------------------ descriptors
\* color.go:108
NoColor_value == <<>>
\* color.go:133
Color_value(c) == c
\* mutant: the two fields taken the wrong way round
AdaptiveColor_value_Swapped(ac, dark) == IF dark THEN ac.Light ELSE ac.Dark
\* color.go:161
AdaptiveColor_value(ac, dark) == IF dark THEN ac.Dark ELSE ac.Light
\* mutant: the switch falls back to the TrueColor field
CompleteColor_value_NoDefault(c, p) ==
    CASE p = "ANSI256" -> c.ANSI256
      [] p = "ANSI" -> c.ANSI
      [] OTHER -> c.TrueColor
\* color.go:188
CompleteColor_value(c, p) ==
    CASE p = "TrueColor" -> c.TrueColor
      [] p = "ANSI256" -> c.ANSI256
      [] p = "ANSI" -> c.ANSI
      [] OTHER -> <<>>
\* mutant: the background is not consulted
CompleteAdaptiveColor_value_LightOnly(cac, dark, p) == CompleteColor_value(cac.Light, p)
\* color.go:221
CompleteAdaptiveColor_value(cac, dark, p) ==
    IF dark THEN CompleteColor_value(cac.Dark, p) ELSE CompleteColor_value(cac.Light, p)

\* what a call yields when it panics
PanicValue == <<"panic">>
PanicRGBA == [ok |-> FALSE, rgba |-> <<0, 0, 0, 0>>]

\* color.go:257  p1, p2: what the two ColorProfile() calls returned
GradientColour_value(gc, p1, p2) ==
    UNION {
        IF ~sc.ok \/ ~ec.ok THEN {PanicValue}
        ELSE {FormatHex(<<r, g, b>>) :
                r \in BlendChannel(sc.rgb[1], ec.rgb[1], gc.Position, gc.Steps),
                g \in BlendChannel(sc.rgb[2], ec.rgb[2], gc.Position, gc.Steps),
                b \in BlendChannel(sc.rgb[3], ec.rgb[3], gc.Position, gc.Steps)}
        : sc \in {ConvertToRGB(s) : s \in Profile_Color(p1, gc.Start)},
          ec \in {ConvertToRGB(e) : e \in Profile_Color(p2, gc.End)}}

\* the color() methods: p.Color(value), p what the receiver expression yielded
ColorOf(p, v) == IF v = PanicValue THEN {Panic} ELSE Profile_Color(p, v)

\* the RGBA() methods: termenv.ConvertToRGB(color()).RGBA()
RGBAOf(h) ==
    Only({IF c.ok THEN [ok |-> TRUE, rgba |-> colorful_RGBA(c.rgb)] ELSE PanicRGBA :
            c \in {ConvertToRGB(h)}})

\* color.go:121
NoColor_RGBA == [ok |-> TRUE, rgba |-> <<0, 0, 0, 65535>>]

\* ------------------------------------------------------------ the calls
None == "none"
NoResult == "none"
NoCall == [recv |-> "", method |-> "", d |-> None, arg |-> None]

PkgCall(m, a) == [recv |-> "lipgloss", method |-> m, d |-> None, arg |-> a]
MethodCalls(r, ms, ds) ==
    {[recv |-> r, method |-> m, d |-> d, arg |-> None] : m \in ms, d \in ds}

IsSetter(c) == c.method \in {"SetColorProfile", "SetHasDarkBackground"}

\* The detector reads a call performs, in evaluation order: "ColorProfile"
\* and "HasDarkBackground" are calls of the locked getters, "colorProfile"
\* is the read of the package variable at color.go:202.  Go does not order
\* that read against the call c.value() in the same expression.
Scripts(c) ==
    LET P == "ColorProfile"
        B == "HasDarkBackground"
        v == c.method = "value"
    IN  CASE c.recv = "lipgloss" ->
                IF c.method \in {P, B} THEN {<<c.method>>} ELSE {<<>>}
          [] c.recv = "NoColor" -> IF c.method = "color" THEN {<<P>>} ELSE {<<>>}
          [] c.recv = "Color" -> IF v THEN {<<>>} ELSE {<<P>>}
          [] c.recv = "AdaptiveColor" -> IF v THEN {<<B>>} ELSE {<<P, B>>}
          [] c.recv = "CompleteColor" ->
                IF v THEN {<<P>>} ELSE {<<"colorProfile", P>>, <<P, "colorProfile">>}
          [] c.recv = "CompleteAdaptiveColor" -> IF v THEN {<<B, P>>} ELSE {<<P, B, P>>}
          [] c.recv = "GradientColour" -> IF v THEN {<<P, P>>} ELSE {<<P, P, P>>}

\* what value() yields, from what the reads of value() returned
Values(c, g) ==
    CASE c.recv = "NoColor" -> {NoColor_value}
      [] c.recv = "Color" -> {Color_value(c.d)}
      [] c.recv = "AdaptiveColor" -> {AdaptiveColor_value(c.d, g[1])}
      [] c.recv = "CompleteColor" -> {CompleteColor_value(c.d, g[1])}
      [] c.recv = "CompleteAdaptiveColor" -> {CompleteAdaptiveColor_value(c.d, g[1], g[2])}
      [] c.recv = "GradientColour" -> GradientColour_value(c.d, g[1], g[2])

\* what color() yields: the receiver of .Color() and the reads of value()
Colors(c, s, g) ==
    IF c.recv = "CompleteColor"
    THEN UNION {ColorOf(g[IndexOf(s, "colorProfile")], v) :
                    v \in Values(c, <<g[IndexOf(s, "ColorProfile")]>>)}
    ELSE UNION {ColorOf(g[1], v) : v \in Values(c, Tail(g))}

\* The value a call returns, from what its reads returned.
Results(c, s, g) ==
    CASE c.recv = "lipgloss" -> IF g = <<>> THEN {NoResult} ELSE {g[1]}
      [] c.method = "value" -> Values(c, g)
      [] c.method = "color" -> Colors(c, s, g)
      [] c.method = "RGBA" ->
            IF c.recv = "NoColor" THEN {NoColor_RGBA}
            ELSE {RGBAOf(h) : h \in Colors(c, s, g)}

VARIABLES
    colorProfile,             \* color.go:10
    getColorProfile,          \* color.go:11  sync.Once: "fresh" | "running" | "done"
    explicitColorProfile,     \* color.go:12
    hasDarkBackground,        \* color.go:14
    getBackgroundColor,       \* color.go:15  sync.Once
    explicitBackgroundColor,  \* color.go:16
    colorProfileMtx,          \* color.go:18  [readers, writer]
    envColorProfile,          \* what termenv.EnvColorProfile() reports
    envHasDarkBackground,     \* what termenv.HasDarkBackground() reports
    pc,                       \* per goroutine: position in the running call
    call,                     \* per goroutine: the exported call being run
    script,                   \* per goroutine: the detector reads of the call
    gets,                     \* per goroutine: values the reads returned
    result,                   \* per goroutine: the call's return value
    calls,                    \* number of calls started so far
    detections,               \* how often each detection routine has run
    lastSet,                  \* argument of the last returned Set call
    allowed                   \* per goroutine, per read: Set arguments in force

vars == <<colorProfile, getColorProfile, explicitColorProfile,
          hasDarkBackground, getBackgroundColor, explicitBackgroundColor,
          colorProfileMtx, envColorProfile, envHasDarkBackground,
          pc, call, script, gets, result, calls, detections, lastSet, allowed>>

profileVars == <<colorProfile, getColorProfile, explicitColorProfile>>
backgroundVars == <<hasDarkBackground, getBackgroundColor, explicitBackgroundColor>>
envVars == <<envColorProfile, envHasDarkBackground>>

\* ----------------------------------------------------------------- Init
Init ==
    /\ colorProfile = ZeroProfile
    /\ getColorProfile = "fresh"
    /\ explicitColorProfile = FALSE
    /\ hasDarkBackground = FALSE
    /\ getBackgroundColor = "fresh"
    /\ explicitBackgroundColor = FALSE
    /\ colorProfileMtx = [readers |-> {}, writer |-> NoThread]
    /\ envColorProfile \in ValidProfiles
    /\ envHasDarkBackground \in BOOLEAN
    /\ pc = [t \in Threads |-> "idle"]
    /\ call = [t \in Threads |-> NoCall]
    /\ script = [t \in Threads |-> <<>>]
    /\ gets = [t \in Threads |-> <<>>]
    /\ result = [t \in Threads |-> NoResult]
    /\ calls = 0
    /\ detections = [ColorProfile |-> 0, HasDarkBackground |-> 0]
    /\ lastSet = [ColorProfile |-> {}, HasDarkBackground |-> {}]
    /\ allowed = [t \in Threads |-> <<>>]

\* ------------------------------------------------------ reads and set calls
\* the read goroutine t is performing (the last one it started)
CurFn(t) == script[t][Len(allowed[t])]

SetterOf(fn) == IF fn = "ColorProfile" THEN "SetColorProfile" ELSE "SetHasDarkBackground"

InFlightArgs(fn) ==
    {call[u].arg : u \in {v \in Threads : call[v].method = SetterOf(fn)}}

\* A getter call that starts after a Set call has returned may see that
\* call's argument or the argument of a Set call made since; {} when no Set
\* call has returned yet.
StartAllowed(fn) ==
    IF fn = "colorProfile" \/ lastSet[fn] = {} THEN {}
    ELSE lastSet[fn] \cup InFlightArgs(fn)

\* a Set call is made while getter calls are waiting for the lock or hold it
NoteSetter(c) ==
    [u \in Threads |->
        IF IsSetter(c) /\ pc[u] \in {"RLock", "check"}
           /\ SetterOf(CurFn(u)) = c.method
           /\ allowed[u][Len(allowed[u])] # {}
        THEN [allowed[u] EXCEPT ![Len(allowed[u])] = @ \cup {c.arg}]
        ELSE allowed[u]]

Entry(fn) == IF fn = "colorProfile" THEN "rawread" ELSE "RLock"

\* goroutine t has the values g of its first reads: it starts the next read,
\* or computes the result of the call when none is left
Advance(t, g) ==
    IF Len(g) = Len(script[t])
    THEN /\ pc' = [pc EXCEPT ![t] = "ret"]
         /\ \E r \in Results(call[t], script[t], g) :
                result' = [result EXCEPT ![t] = r]
         /\ UNCHANGED allowed
    ELSE /\ pc' = [pc EXCEPT ![t] = Entry(script[t][Len(g) + 1])]
         /\ allowed' = [allowed EXCEPT ![t] = Append(@, StartAllowed(script[t][Len(g) + 1]))]
         /\ UNCHANGED result

\* ----------------------------------------------------------------- calls
\* goroutine t calls c
Invoke(t, c, max) ==
    /\ pc[t] = "idle"
    /\ calls < max
    /\ calls' = calls + 1
    /\ call' = [call EXCEPT ![t] = c]
    /\ gets' = [gets EXCEPT ![t] = <<>>]
    /\ \E s \in Scripts(c) :
        /\ script' = [script EXCEPT ![t] = s]
        /\ IF IsSetter(c)
           THEN /\ pc' = [pc EXCEPT ![t] = "Lock"]
                /\ allowed' = [NoteSetter(c) EXCEPT ![t] = <<>>]
                /\ UNCHANGED result
           ELSE IF s = <<>>
           THEN /\ \E r \in Results(c, s, <<>>) : result' = [result EXCEPT ![t] = r]
                /\ pc' = [pc EXCEPT ![t] = "ret"]
                /\ allowed' = [allowed EXCEPT ![t] = <<>>]
           ELSE /\ pc' = [pc EXCEPT ![t] = Entry(s[1])]
                /\ allowed' = [allowed EXCEPT ![t] = <<StartAllowed(s[1])>>]
                /\ UNCHANGED result
    /\ UNCHANGED <<profileVars, backgroundVars, colorProfileMtx, envVars,
                   detections, lastSet>>

\* the call returns to its caller
Return(t) ==
    /\ pc[t] = "ret"
    /\ pc' = [pc EXCEPT ![t] = "idle"]
    /\ call' = [call EXCEPT ![t] = NoCall]
    /\ script' = [script EXCEPT ![t] = <<>>]
    /\ gets' = [gets EXCEPT ![t] = <<>>]
    /\ result' = [result EXCEPT ![t] = NoResult]
    /\ allowed' = [allowed EXCEPT ![t] = <<>>]
    /\ UNCHANGED <<profileVars, backgroundVars, colorProfileMtx, envVars,
                   calls, detections, lastSet>>

\* color.go:202  the receiver colorProfile of colorProfile.Color(...), read
\* without the lock
RawRead(t) ==
    /\ pc[t] = "rawread"
    /\ gets' = [gets EXCEPT ![t] = Append(@, colorProfile)]
    /\ Advance(t, gets'[t])
    /\ UNCHANGED <<profileVars, backgroundVars, colorProfileMtx, envVars, call,
                   script, calls, detections, lastSet>>

\* -------------------------------------------------------- sync.RWMutex
\* RLock blocks while a writer holds or is waiting for the lock.
RLock(t) ==
    /\ pc[t] = "RLock"
    /\ colorProfileMtx.writer = NoThread
    /\ colorProfileMtx' = [colorProfileMtx EXCEPT !.readers = @ \cup {t}]
    /\ pc' = [pc EXCEPT ![t] = "check"]
    /\ UNCHANGED <<profileVars, backgroundVars, envVars, call, script, gets,
                   result, calls, detections, lastSet, allowed>>

\* mutant: the getter returns without releasing the read lock
RUnlock_Missing(t) ==
    /\ pc[t] = "RUnlock"
    /\ Advance(t, gets[t])
    /\ UNCHANGED <<profileVars, backgroundVars, colorProfileMtx, envVars, call,
                   script, gets, calls, detections, lastSet>>

\* the deferred RUnlock: the getter has returned
RUnlock(t) ==
    /\ pc[t] = "RUnlock"
    /\ colorProfileMtx' = [colorProfileMtx EXCEPT !.readers = @ \ {t}]
    /\ Advance(t, gets[t])
    /\ UNCHANGED <<profileVars, backgroundVars, envVars, call, script, gets,
                   calls, detections, lastSet>>

\* Lock, first half: the writer announces itself (new readers now block)
Lock(t) ==
    /\ pc[t] = "Lock"
    /\ colorProfileMtx.writer = NoThread
    /\ colorProfileMtx' = [colorProfileMtx EXCEPT !.writer = t]
    /\ pc' = [pc EXCEPT ![t] = "LockWait"]
    /\ UNCHANGED <<profileVars, backgroundVars, envVars, call, script, gets,
                   result, calls, detections, lastSet, allowed>>

\* Lock, second half: the writer proceeds once the active readers have left
LockWait(t) ==
    /\ pc[t] = "LockWait"
    /\ colorProfileMtx.readers = {}
    /\ pc' = [pc EXCEPT ![t] = "setval"]
    /\ UNCHANGED <<profileVars, backgroundVars, colorProfileMtx, envVars, call,
                   script, gets, result, calls, detections, lastSet, allowed>>

\* ---------------------------------------------------------- ColorProfile
\* mutant: a plain "detected" test in place of sync.Once, so that a caller
\* arriving while the first one detects does not wait
ColorProfileCheck_NoWait(t) ==
    /\ pc[t] = "check" /\ CurFn(t) = "ColorProfile"
    /\ IF ~explicitColorProfile /\ getColorProfile = "fresh"
       THEN /\ getColorProfile' = "running"
            /\ pc' = [pc EXCEPT ![t] = "f"]
            /\ UNCHANGED gets
       ELSE /\ gets' = [gets EXCEPT ![t] = Append(@, colorProfile)]
            /\ pc' = [pc EXCEPT ![t] = "RUnlock"]
            /\ UNCHANGED getColorProfile
    /\ UNCHANGED <<colorProfile, explicitColorProfile, backgroundVars,
                   colorProfileMtx, envVars, call, script, result, calls,
                   detections, lastSet, allowed>>

\* color.go:27-32 holding the read lock: test the flag, enter
\* getColorProfile.Do (first caller runs f, later callers wait while f
\* runs), and when no detection is needed evaluate `return colorProfile`.
ColorProfileCheck(t) ==
    /\ pc[t] = "check" /\ CurFn(t) = "ColorProfile"
    /\ explicitColorProfile \/ getColorProfile # "running"
    /\ IF ~explicitColorProfile /\ getColorProfile = "fresh"
       THEN /\ getColorProfile' = "running"
            /\ pc' = [pc EXCEPT ![t] = "f"]
            /\ UNCHANGED gets
       ELSE /\ gets' = [gets EXCEPT ![t] = Append(@, colorProfile)]
            /\ pc' = [pc EXCEPT ![t] = "RUnlock"]
            /\ UNCHANGED getColorProfile
    /\ UNCHANGED <<colorProfile, explicitColorProfile, backgroundVars,
                   colorProfileMtx, envVars, call, script, result, calls,
                   detections, lastSet, allowed>>

\* color.go:29  colorProfile = termenv.EnvColorProfile(); Do marks the
\* Once done; color.go:32 evaluates `return colorProfile`.
ColorProfileDetect(t) ==
    /\ pc[t] = "f" /\ CurFn(t) = "ColorProfile"
    /\ colorProfile' = envColorProfile
    /\ getColorProfile' = "done"
    /\ detections' = [detections EXCEPT !.ColorProfile = @ + 1]
    /\ gets' = [gets EXCEPT ![t] = Append(@, colorProfile')]
    /\ pc' = [pc EXCEPT ![t] = "RUnlock"]
    /\ UNCHANGED <<explicitColorProfile, backgroundVars, colorProfileMtx,
                   envVars, call, script, result, calls, lastSet, allowed>>

\* ------------------------------------------------------- SetColorProfile
\* color.go:55  colorProfile = p
SetColorProfileValue(t) ==
    /\ pc[t] = "setval" /\ call[t].method = "SetColorProfile"
    /\ colorProfile' = call[t].arg
    /\ pc' = [pc EXCEPT ![t] = "setflag"]
    /\ UNCHANGED <<getColorProfile, explicitColorProfile, backgroundVars,
                   colorProfileMtx, envVars, call, script, gets, result, calls,
                   detections, lastSet, allowed>>

\* mutant: the Set call forgets to raise the flag
SetColorProfileFlag_Forgotten(t) ==
    /\ pc[t] = "setflag" /\ call[t].method = "SetColorProfile"
    /\ pc' = [pc EXCEPT ![t] = "Unlock"]
    /\ UNCHANGED <<profileVars, backgroundVars, colorProfileMtx, envVars, call,
                   script, gets, result, calls, detections, lastSet, allowed>>

\* mutant: the Set call raises the flag of the other detector
SetColorProfileFlag_WrongFlag(t) ==
    /\ pc[t] = "setflag" /\ call[t].method = "SetColorProfile"
    /\ explicitBackgroundColor' = TRUE
    /\ pc' = [pc EXCEPT ![t] = "Unlock"]
    /\ UNCHANGED <<profileVars, hasDarkBackground, getBackgroundColor,
                   colorProfileMtx, envVars, call, script, gets, result, calls,
                   detections, lastSet, allowed>>

\* mutant: the Set call flips the flag instead of raising it
SetColorProfileFlag_Flipped(t) ==
    /\ pc[t] = "setflag" /\ call[t].method = "SetColorProfile"
    /\ explicitColorProfile' = ~explicitColorProfile
    /\ pc' = [pc EXCEPT ![t] = "Unlock"]
    /\ UNCHANGED <<colorProfile, getColorProfile, backgroundVars,
                   colorProfileMtx, envVars, call, script, gets, result, calls,
                   detections, lastSet, allowed>>

\* color.go:56  explicitColorProfile = true
SetColorProfileFlag(t) ==
    /\ pc[t] = "setflag" /\ call[t].method = "SetColorProfile"
    /\ explicitColorProfile' = TRUE
    /\ pc' = [pc EXCEPT ![t] = "Unlock"]
    /\ UNCHANGED <<colorProfile, getColorProfile, backgroundVars,
                   colorProfileMtx, envVars, call, script, gets, result, calls,
                   detections, lastSet, allowed>>

\* ----------------------------------------------------- HasDarkBackground
\* mutant: the getter does not test the explicit flag
HasDarkBackgroundCheck_NoFlagTest(t) ==
    /\ pc[t] = "check" /\ CurFn(t) = "HasDarkBackground"
    /\ getBackgroundColor # "running"
    /\ IF getBackgroundColor = "fresh"
       THEN /\ getBackgroundColor' = "running"
            /\ pc' = [pc EXCEPT ![t] = "f"]
            /\ UNCHANGED gets
       ELSE /\ gets' = [gets EXCEPT ![t] = Append(@, hasDarkBackground)]
            /\ pc' = [pc EXCEPT ![t] = "RUnlock"]
            /\ UNCHANGED getBackgroundColor
    /\ UNCHANGED <<hasDarkBackground, explicitBackgroundColor, profileVars,
                   colorProfileMtx, envVars, call, script, result, calls,
                   detections, lastSet, allowed>>

\* color.go:64-70 holding the read lock: test the flag, enter
\* getBackgroundColor.Do, and when no detection is needed evaluate
\* `return hasDarkBackground`.
HasDarkBackgroundCheck(t) ==
    /\ pc[t] = "check" /\ CurFn(t) = "HasDarkBackground"
    /\ explicitBackgroundColor \/ getBackgroundColor # "running"
    /\ IF ~explicitBackgroundColor /\ getBackgroundColor = "fresh"
       THEN /\ getBackgroundColor' = "running"
            /\ pc' = [pc EXCEPT ![t] = "f"]
            /\ UNCHANGED gets
       ELSE /\ gets' = [gets EXCEPT ![t] = Append(@, hasDarkBackground)]
            /\ pc' = [pc EXCEPT ![t] = "RUnlock"]
            /\ UNCHANGED getBackgroundColor
    /\ UNCHANGED <<hasDarkBackground, explicitBackgroundColor, profileVars,
                   colorProfileMtx, envVars, call, script, result, calls,
                   detections, lastSet, allowed>>

\* color.go:66  hasDarkBackground = termenv.HasDarkBackground(); Do marks
\* the Once done; color.go:70 evaluates `return hasDarkBackground`.
HasDarkBackgroundDetect(t) ==
    /\ pc[t] = "f" /\ CurFn(t) = "HasDarkBackground"
    /\ hasDarkBackground' = envHasDarkBackground
    /\ getBackgroundColor' = "done"
    /\ detections' = [detections EXCEPT !.HasDarkBackground = @ + 1]
    /\ gets' = [gets EXCEPT ![t] = Append(@, hasDarkBackground')]
    /\ pc' = [pc EXCEPT ![t] = "RUnlock"]
    /\ UNCHANGED <<explicitBackgroundColor, profileVars, colorProfileMtx,
                   envVars, call, script, result, calls, lastSet, allowed>>

\* -------------------------------------------------- SetHasDarkBackground
\* color.go:87  hasDarkBackground = b
SetHasDarkBackgroundValue(t) ==
    /\ pc[t] = "setval" /\ call[t].method = "SetHasDarkBackground"
    /\ hasDarkBackground' = call[t].arg
    /\ pc' = [pc EXCEPT ![t] = "setflag"]
    /\ UNCHANGED <<getBackgroundColor, explicitBackgroundColor, profileVars,
                   colorProfileMtx, envVars, call, script, gets, result, calls,
                   detections, lastSet, allowed>>

\* mutant: the Set call forgets to raise the flag
SetHasDarkBackgroundFlag_Forgotten(t) ==
    /\ pc[t] = "setflag" /\ call[t].method = "SetHasDarkBackground"
    /\ pc' = [pc EXCEPT ![t] = "Unlock"]
    /\ UNCHANGED <<profileVars, backgroundVars, colorProfileMtx, envVars, call,
                   script, gets, result, calls, detections, lastSet, allowed>>

\* color.go:88  explicitBackgroundColor = true
SetHasDarkBackgroundFlag(t) ==
    /\ pc[t] = "setflag" /\ call[t].method = "SetHasDarkBackground"
    /\ explicitBackgroundColor' = TRUE
    /\ pc' = [pc EXCEPT ![t] = "Unlock"]
    /\ UNCHANGED <<hasDarkBackground, getBackgroundColor, profileVars,
                   colorProfileMtx, envVars, call, script, gets, result, calls,
                   detections, lastSet, allowed>>

\* the deferred Unlock of either Set call; the call has then returned
Unlock(t) ==
    /\ pc[t] = "Unlock"
    /\ colorProfileMtx' = [colorProfileMtx EXCEPT !.writer = NoThread]
    /\ lastSet' = IF call[t].method = "SetColorProfile"
                  THEN [lastSet EXCEPT !.ColorProfile = {call[t].arg}]
                  ELSE [lastSet EXCEPT !.HasDarkBackground = {call[t].arg}]
    /\ pc' = [pc EXCEPT ![t] = "idle"]
    /\ call' = [call EXCEPT ![t] = NoCall]
    /\ script' = [script EXCEPT ![t] = <<>>]
    /\ UNCHANGED <<profileVars, backgroundVars, envVars, gets, result,
                   calls, detections, allowed>>

\* ------------------------------------------------------------ descriptors
MaxSteps == 2

Hex_fff == <<"#", "f", "f", "f">>
Hex_000 == <<"#", "0", "0", "0">>
Hex_112233 == <<"#", "1", "1", "2", "2", "3", "3">>
Hex_000000 == <<"#", "0", "0", "0", "0", "0", "0">>
Hex_ffffff == <<"#", "f", "f", "f", "f", "f", "f">>
Hex_ff0000 == <<"#", "f", "f", "0", "0", "0", "0">>
Idx_99 == <<"9", "9">>
Idx_5 == <<"5">>
Idx_21 == <<"2", "1">>
Idx_200 == <<"2", "0", "0">>
Idx_196 == <<"1", "9", "6">>
Idx_9 == <<"9">>

NoColors == {<<>>}
\* Descriptors whose strings are entries of the ANSI palettes: every
\* profile maps them exactly.
SolidColor1 == Hex_ff0000
AdaptiveColor1 == [Light |-> Hex_fff, Dark |-> Hex_000]
CompleteColor1 == [TrueColor |-> Hex_ffffff, ANSI256 |-> Idx_21, ANSI |-> Idx_5]
CompleteAdaptiveColor1 ==
    [Light |-> CompleteColor1,
     Dark |-> [TrueColor |-> Hex_ff0000, ANSI256 |-> Idx_196, ANSI |-> Idx_9]]
GradientColour1 == [Start |-> Hex_ff0000, End |-> Hex_ffffff, Steps |-> 2, Position |-> 2]

\* the descriptors of the value() specifications
AdaptiveColors == {AdaptiveColor1, [Light |-> <<>>, Dark |-> Idx_5]}
CompleteColors == {[TrueColor |-> Hex_112233, ANSI256 |-> Idx_99, ANSI |-> Idx_5],
                   [TrueColor |-> <<>>, ANSI256 |-> Hex_fff, ANSI |-> Idx_21]}
CompleteAdaptiveColors ==
    {[Light |-> [TrueColor |-> Hex_112233, ANSI256 |-> Idx_99, ANSI |-> Idx_5],
      Dark |-> [TrueColor |-> Hex_ffffff, ANSI256 |-> Idx_200, ANSI |-> Idx_21]]}
GradientEnds == {<<Hex_000000, Hex_ffffff>>, <<Hex_112233, Hex_ffffff>>,
                 <<Hex_ffffff, Hex_ff0000>>}
GradientColours ==
    {[Start |-> se[1], End |-> se[2], Steps |-> n, Position |-> i] :
        se \in GradientEnds, n \in 0..MaxSteps, i \in (0 - 1)..(MaxSteps + 1)}

\* field strings that are empty or malformed: an index off the 256-entry
\* table, a negative index, a non-hex colour
Idx_300 == <<"3", "0", "0">>
Idx_neg1 == <<"-", "1">>
Hex_xyz == <<"#", "x", "y", "z">>
MalformedColors == {<<>>, Idx_300, Idx_neg1, Hex_xyz}
\* the descriptors of the RGBA() specification
SolidColorsRGBA == {SolidColor1, Idx_5} \cup MalformedColors
GradientColoursRGBA ==
    {GradientColour1, [Start |-> Hex_xyz, End |-> Hex_ffffff, Steps |-> 2, Position |-> 1]}

\* ------------------------------------------------------ specifications
GetterCalls == {PkgCall("ColorProfile", None), PkgCall("HasDarkBackground", None)}
SetColorProfileCalls == {PkgCall("SetColorProfile", p) : p \in Profiles}
\* The detectors only copy the profile: two arguments, one of them not a
\* profile detection can report, against the four detected profiles.
SetColorProfileCallsFew ==
    {PkgCall("SetColorProfile", p) : p \in {"ANSI", UnknownProfile}}
SetHasDarkBackgroundCalls == {PkgCall("SetHasDarkBackground", b) : b \in BOOLEAN}

\* The two detectors: goroutines calling the getters and the Set functions.
CallDetectors(t) ==
    \/ \E c \in GetterCalls \cup SetColorProfileCallsFew : Invoke(t, c, MaxCalls)
    \/ \E c \in SetHasDarkBackgroundCalls : Invoke(t, c, MaxCalls)

NextDetectors ==
    \E t \in Threads :
        \/ CallDetectors(t)
        \/ Return(t)
        \/ RLock(t)
        \/ RUnlock(t)
        \/ Lock(t)
        \/ LockWait(t)
        \/ Unlock(t)
        \/ ColorProfileCheck(t)
        \/ ColorProfileDetect(t)
        \/ SetColorProfileValue(t)
        \/ SetColorProfileFlag(t)
        \/ HasDarkBackgroundCheck(t)
        \/ HasDarkBackgroundDetect(t)
        \/ SetHasDarkBackgroundValue(t)
        \/ SetHasDarkBackgroundFlag(t)

SpecDetectors == Init /\ [][NextDetectors]_vars

\* AdaptiveColor.value() against SetHasDarkBackground.
CallAdaptive(t) ==
    \/ \E c \in MethodCalls("AdaptiveColor", {"value"}, AdaptiveColors) : Invoke(t, c, MaxCalls)
    \/ \E c \in SetHasDarkBackgroundCalls : Invoke(t, c, MaxCalls)

NextAdaptive ==
    \E t \in Threads :
        \/ CallAdaptive(t)
        \/ Return(t)
        \/ RLock(t)
        \/ RUnlock(t)
        \/ Lock(t)
        \/ LockWait(t)
        \/ Unlock(t)
        \/ HasDarkBackgroundCheck(t)
        \/ HasDarkBackgroundDetect(t)
        \/ SetHasDarkBackgroundValue(t)
        \/ SetHasDarkBackgroundFlag(t)

SpecAdaptive == Init /\ [][NextAdaptive]_vars

\* CompleteColor.value() against SetColorProfile.
CallComplete(t) ==
    \/ \E c \in MethodCalls("CompleteColor", {"value"}, CompleteColors) : Invoke(t, c, MaxCalls)
    \/ \E c \in SetColorProfileCalls : Invoke(t, c, MaxCalls)

NextComplete ==
    \E t \in Threads :
        \/ CallComplete(t)
        \/ Return(t)
        \/ RLock(t)
        \/ RUnlock(t)
        \/ Lock(t)
        \/ LockWait(t)
        \/ Unlock(t)
        \/ ColorProfileCheck(t)
        \/ ColorProfileDetect(t)
        \/ SetColorProfileValue(t)
        \/ SetColorProfileFlag(t)

SpecComplete == Init /\ [][NextComplete]_vars

\* CompleteAdaptiveColor.value() against both Set functions.
CallCompleteAdaptive(t) ==
    \/ \E c \in MethodCalls("CompleteAdaptiveColor", {"value"}, CompleteAdaptiveColors) :
            Invoke(t, c, MaxCalls)
    \/ \E c \in SetColorProfileCalls : Invoke(t, c, MaxCalls)
    \/ \E c \in SetHasDarkBackgroundCalls : Invoke(t, c, MaxCalls)

NextCompleteAdaptive ==
    \E t \in Threads :
        \/ CallCompleteAdaptive(t)
        \/ Return(t)
        \/ RLock(t)
        \/ RUnlock(t)
        \/ Lock(t)
        \/ LockWait(t)
        \/ Unlock(t)
        \/ ColorProfileCheck(t)
        \/ ColorProfileDetect(t)
        \/ SetColorProfileValue(t)
        \/ SetColorProfileFlag(t)
        \/ HasDarkBackgroundCheck(t)
        \/ HasDarkBackgroundDetect(t)
        \/ SetHasDarkBackgroundValue(t)
        \/ SetHasDarkBackgroundFlag(t)

SpecCompleteAdaptive == Init /\ [][NextCompleteAdaptive]_vars

\* GradientColour.value(): goroutine 1 resolves gradients while the other
\* goroutines call SetColorProfile.
CallGradient(t) ==
    \/ /\ t = 1
       /\ \E c \in MethodCalls("GradientColour", {"value"}, GradientColours) : Invoke(t, c, MaxCallsWide)
    \/ /\ t # 1
       /\ \E c \in SetColorProfileCallsFew : Invoke(t, c, MaxCallsWide)

NextGradient ==
    \E t \in Threads :
        \/ CallGradient(t)
        \/ Return(t)
        \/ RLock(t)
        \/ RUnlock(t)
        \/ Lock(t)
        \/ LockWait(t)
        \/ Unlock(t)
        \/ ColorProfileCheck(t)
        \/ ColorProfileDetect(t)
        \/ SetColorProfileValue(t)
        \/ SetColorProfileFlag(t)

SpecGradient == Init /\ [][NextGradient]_vars

\* Every exported function and every method of the six descriptor variants.
Methods == {"value", "color", "RGBA"}

Call(t) ==
    \/ \E c \in GetterCalls \cup SetColorProfileCallsFew : Invoke(t, c, MaxCallsWide)
    \/ \E c \in SetHasDarkBackgroundCalls : Invoke(t, c, MaxCallsWide)
    \/ \E c \in MethodCalls("NoColor", Methods, NoColors) : Invoke(t, c, MaxCallsWide)
    \/ \E c \in MethodCalls("Color", Methods, {SolidColor1}) : Invoke(t, c, MaxCallsWide)
    \/ \E c \in MethodCalls("AdaptiveColor", Methods, {AdaptiveColor1}) : Invoke(t, c, MaxCallsWide)
    \/ \E c \in MethodCalls("CompleteColor", Methods, {CompleteColor1}) : Invoke(t, c, MaxCallsWide)
    \/ \E c \in MethodCalls("CompleteAdaptiveColor", Methods, {CompleteAdaptiveColor1}) :
            Invoke(t, c, MaxCallsWide)
    \/ \E c \in MethodCalls("GradientColour", Methods, {GradientColour1}) : Invoke(t, c, MaxCallsWide)

Next ==
    \E t \in Threads :
        \/ Call(t)
        \/ Return(t)
        \/ RawRead(t)
        \/ RLock(t)
        \/ RUnlock(t)
        \/ Lock(t)
        \/ LockWait(t)
        \/ Unlock(t)
        \/ ColorProfileCheck(t)
        \/ ColorProfileDetect(t)
        \/ SetColorProfileValue(t)
        \/ SetColorProfileFlag(t)
        \/ HasDarkBackgroundCheck(t)
        \/ HasDarkBackgroundDetect(t)
        \/ SetHasDarkBackgroundValue(t)
        \/ SetHasDarkBackgroundFlag(t)

Spec == Init /\ [][Next]_vars

\* RGBA() of the six descriptor variants, on well-formed, empty and
\* malformed field strings, while the detectors are set.
CallRGBA(t) ==
    \/ \E c \in SetColorProfileCallsFew : Invoke(t, c, MaxCallsWide)
    \/ \E c \in SetHasDarkBackgroundCalls : Invoke(t, c, MaxCallsWide)
    \/ \E c \in MethodCalls("NoColor", {"RGBA"}, NoColors) : Invoke(t, c, MaxCallsWide)
    \/ \E c \in MethodCalls("Color", {"RGBA"}, SolidColorsRGBA) : Invoke(t, c, MaxCallsWide)
    \/ \E c \in MethodCalls("AdaptiveColor", {"RGBA"}, AdaptiveColors) : Invoke(t, c, MaxCallsWide)
    \/ \E c \in MethodCalls("CompleteColor", {"RGBA"}, CompleteColors) : Invoke(t, c, MaxCallsWide)
    \/ \E c \in MethodCalls("CompleteAdaptiveColor", {"RGBA"}, CompleteAdaptiveColors) :
            Invoke(t, c, MaxCallsWide)
    \/ \E c \in MethodCalls("GradientColour", {"RGBA"}, GradientColoursRGBA) :
            Invoke(t, c, MaxCallsWide)

NextRGBA ==
    \E t \in Threads :
        \/ CallRGBA(t)
        \/ Return(t)
        \/ RawRead(t)
        \/ RLock(t)
        \/ RUnlock(t)
        \/ Lock(t)
        \/ LockWait(t)
        \/ Unlock(t)
        \/ ColorProfileCheck(t)
        \/ ColorProfileDetect(t)
        \/ SetColorProfileValue(t)
        \/ SetColorProfileFlag(t)
        \/ HasDarkBackgroundCheck(t)
        \/ HasDarkBackgroundDetect(t)
        \/ SetHasDarkBackgroundValue(t)
        \/ SetHasDarkBackgroundFlag(t)

SpecRGBA == Init /\ [][NextRGBA]_vars

\* the places a goroutine can be at
Places == {"idle", "ret", "rawread", "RLock", "check", "f", "RUnlock",
           "Lock", "LockWait", "setval", "setflag", "Unlock"}

\* Fair scheduling: a goroutine inside a call that can take its next step
\* eventually takes it (making a new call is not an obligation).  A step of
\* goroutine t moves t alone, to another place.
Proceed(t) ==
    /\ pc[t] # "idle"
    /\ \E q \in Places \ {pc[t]} : pc' = [pc EXCEPT ![t] = q]
    /\ \/ Return(t)
       \/ RawRead(t)
       \/ RLock(t)
       \/ RUnlock(t)
       \/ Lock(t)
       \/ LockWait(t)
       \/ Unlock(t)
       \/ ColorProfileCheck(t)
       \/ ColorProfileDetect(t)
       \/ SetColorProfileValue(t)
       \/ SetColorProfileFlag(t)
       \/ HasDarkBackgroundCheck(t)
       \/ HasDarkBackgroundDetect(t)
       \/ SetHasDarkBackgroundValue(t)
       \/ SetHasDarkBackgroundFlag(t)

\* (every step of Proceed(t) changes pc[t])
SpecFair == Init /\ [][Next]_vars /\ \A t \in Threads : WF_pc(Proceed(t))

\* ------------------------------------------------------------------ claims
Returned(t, m) == pc[t] = "ret" /\ call[t].recv = "lipgloss" /\ call[t].method = m

\* C1: a ColorProfile() call that starts after SetColorProfile(X) has
\* returned returns X, or the argument of a SetColorProfile call made since
\* (allowed[t][1] holds X and those arguments; it is {X} when no other call
\* was made).
C1_GetAfterSetColorProfile ==
    \A t \in Threads :
        (Returned(t, "ColorProfile") /\ allowed[t][1] # {})
            => result[t] \in allowed[t][1]

\* C1 witness: detection ran, then SetColorProfile(X) with X different from
\* the detected profile returned, then a getter returned X.
C1_Witness ==
    \E t \in Threads :
        /\ Returned(t, "ColorProfile")
        /\ allowed[t][1] = {result[t]}
        /\ result[t] # envColorProfile
        /\ detections.ColorProfile = 1

\* C2: for each detector, detection runs at most once, and a getter that
\* returns while no explicit set has been made returns after the one
\* detection has completed, with the detected value.
C2_DetectOnce ==
    /\ detections.ColorProfile <= 1
    /\ detections.HasDarkBackground <= 1
    /\ \A t \in Threads :
        (Returned(t, "ColorProfile") /\ ~explicitColorProfile)
            => /\ detections.ColorProfile = 1
               /\ getColorProfile = "done"
               /\ result[t] = envColorProfile
    /\ \A t \in Threads :
        (Returned(t, "HasDarkBackground") /\ ~explicitBackgroundColor)
            => /\ detections.HasDarkBackground = 1
               /\ getBackgroundColor = "done"
               /\ result[t] = envHasDarkBackground

\* C2 witness: two concurrent first callers of ColorProfile() have both
\* returned the detected profile (which differs from the zero value) after
\* a single detection, no explicit set having been made.
C2_Witness ==
    \E t, u \in Threads :
        /\ t # u
        /\ Returned(t, "ColorProfile") /\ Returned(u, "ColorProfile")
        /\ ~explicitColorProfile /\ detections.ColorProfile = 1
        /\ result[t] = envColorProfile /\ result[u] = envColorProfile
        /\ envColorProfile # ZeroProfile

\* C4: once a detector's explicit flag is true, its cached value changes
\* only in the assignment step of its Set call, and its detection routine
\* does not run.
C4_ExplicitFreezesCache ==
    [][/\ explicitColorProfile =>
            /\ detections'.ColorProfile = detections.ColorProfile
            /\ colorProfile' # colorProfile =>
                  \E t \in Threads : /\ pc[t] = "setval" /\ pc'[t] = "setflag"
                                     /\ call[t].method = "SetColorProfile"
                                     /\ colorProfile' = call[t].arg
       /\ explicitBackgroundColor =>
            /\ detections'.HasDarkBackground = detections.HasDarkBackground
            /\ hasDarkBackground' # hasDarkBackground =>
                  \E t \in Threads : /\ pc[t] = "setval" /\ pc'[t] = "setflag"
                                     /\ call[t].method = "SetHasDarkBackground"
                                     /\ hasDarkBackground' = call[t].arg
      ]_vars

\* C4 witness: the flag was set while the Once was still fresh, and a getter
\* has since returned the set value without detecting.
C4_Witness ==
    \E t \in Threads :
        /\ Returned(t, "ColorProfile")
        /\ explicitColorProfile /\ getColorProfile = "fresh"
        /\ detections.ColorProfile = 0
        /\ result[t] = colorProfile /\ result[t] # envColorProfile

\* C5: a HasDarkBackground() call that starts after SetHasDarkBackground(b)
\* has returned returns b, or the argument of a SetHasDarkBackground call
\* made since.
C5_GetAfterSetHasDarkBackground ==
    \A t \in Threads :
        (Returned(t, "HasDarkBackground") /\ allowed[t][1] # {})
            => result[t] \in allowed[t][1]

\* C5 witness: detection ran and reported the opposite of b before
\* SetHasDarkBackground(b) returned; a later getter returned b.
C5_Witness ==
    \E t \in Threads :
        /\ Returned(t, "HasDarkBackground")
        /\ allowed[t][1] = {result[t]}
        /\ result[t] # envHasDarkBackground
        /\ detections.HasDarkBackground = 1

\* the lock-free accesses to the detectors' variables that goroutine t's
\* next step performs
Writes(t, v) ==
    CASE v = "colorProfile" ->
            \/ pc[t] = "setval" /\ call[t].method = "SetColorProfile"
            \/ pc[t] = "f" /\ CurFn(t) = "ColorProfile"
      [] v = "explicitColorProfile" ->
            pc[t] = "setflag" /\ call[t].method = "SetColorProfile"
      [] v = "hasDarkBackground" ->
            \/ pc[t] = "setval" /\ call[t].method = "SetHasDarkBackground"
            \/ pc[t] = "f" /\ CurFn(t) = "HasDarkBackground"
      [] v = "explicitBackgroundColor" ->
            pc[t] = "setflag" /\ call[t].method = "SetHasDarkBackground"

Reads(t, v) ==
    CASE v = "colorProfile" ->
            \/ pc[t] = "rawread"
            \/ pc[t] = "check" /\ CurFn(t) = "ColorProfile"
               /\ (explicitColorProfile \/ getColorProfile = "done")
      [] v = "explicitColorProfile" ->
            pc[t] = "check" /\ CurFn(t) = "ColorProfile"
      [] v = "hasDarkBackground" ->
            pc[t] = "check" /\ CurFn(t) = "HasDarkBackground"
            /\ (explicitBackgroundColor \/ getBackgroundColor = "done")
      [] v = "explicitBackgroundColor" ->
            pc[t] = "check" /\ CurFn(t) = "HasDarkBackground"

SharedVars == {"colorProfile", "explicitColorProfile",
               "hasDarkBackground", "explicitBackgroundColor"}

\* C3: in no reachable state is one goroutine about to write a detector
\* variable while another is about to read or write the same variable
\* (neither the lock nor the Once orders two steps that are both enabled).
C3_NoDataRace ==
    \A t, u \in Threads : \A v \in SharedVars :
        t # u => ~(Writes(t, v) /\ (Writes(u, v) \/ Reads(u, v)))

ValueReturned(t, r) == pc[t] = "ret" /\ call[t].recv = r /\ call[t].method = "value"

\* C6: AdaptiveColor.value() returns Dark when its HasDarkBackground() call
\* reported dark and Light otherwise, and that call reported the argument
\* of the last returned SetHasDarkBackground (or of one made since).
C6_AdaptiveValueTracksBackground ==
    \A t \in Threads :
        ValueReturned(t, "AdaptiveColor") =>
            /\ gets[t][1] => result[t] = call[t].d.Dark
            /\ ~gets[t][1] => result[t] = call[t].d.Light
            /\ allowed[t][1] # {} => gets[t][1] \in allowed[t][1]

\* C6 witness: two value() calls on the same descriptor have returned Dark
\* and Light, the second after a SetHasDarkBackground(false) in between.
C6_Witness ==
    \E t, u \in Threads :
        /\ ValueReturned(t, "AdaptiveColor") /\ ValueReturned(u, "AdaptiveColor")
        /\ call[t].d = call[u].d /\ call[t].d.Dark # call[t].d.Light
        /\ result[t] = call[t].d.Dark /\ allowed[t] = <<{}>>
        /\ result[u] = call[u].d.Light /\ allowed[u] = <<{FALSE}>>

\* C7: CompleteColor.value() returns the TrueColor, ANSI256 or ANSI field
\* when its ColorProfile() call returned that profile and the empty string
\* for Ascii and for any other profile value, and that call returned the
\* argument of the last returned SetColorProfile (or of one made since).
C7_CompleteValueByProfile ==
    \A t \in Threads :
        ValueReturned(t, "CompleteColor") =>
            /\ gets[t][1] = "TrueColor" => result[t] = call[t].d.TrueColor
            /\ gets[t][1] = "ANSI256" => result[t] = call[t].d.ANSI256
            /\ gets[t][1] = "ANSI" => result[t] = call[t].d.ANSI
            /\ gets[t][1] \notin {"TrueColor", "ANSI256", "ANSI"} => result[t] = <<>>
            /\ allowed[t][1] # {} => gets[t][1] \in allowed[t][1]

\* C7 witness: value() returned the ANSI field under a detected ANSI
\* profile, and the empty string after SetColorProfile of an unrecognized
\* profile value.
C7_Witness ==
    \E t, u \in Threads :
        /\ ValueReturned(t, "CompleteColor") /\ ValueReturned(u, "CompleteColor")
        /\ gets[t][1] = "ANSI" /\ result[t] = call[t].d.ANSI /\ result[t] # <<>>
        /\ gets[u][1] = UnknownProfile /\ result[u] = <<>>
        /\ allowed[u] = <<{UnknownProfile}>>

\* C8: CompleteAdaptiveColor.value() returns the field at (background,
\* profile): of Dark when its HasDarkBackground() call reported dark and of
\* Light otherwise, keyed by what its ColorProfile() call returned, and the
\* empty string under Ascii or an unrecognized profile.
C8_CompleteAdaptiveValue ==
    \A t \in Threads :
        ValueReturned(t, "CompleteAdaptiveColor") =>
            LET b == gets[t][1]
                p == gets[t][2]
                d == call[t].d
            IN  /\ (b /\ p = "TrueColor") => result[t] = d.Dark.TrueColor
                /\ (b /\ p = "ANSI256") => result[t] = d.Dark.ANSI256
                /\ (b /\ p = "ANSI") => result[t] = d.Dark.ANSI
                /\ (~b /\ p = "TrueColor") => result[t] = d.Light.TrueColor
                /\ (~b /\ p = "ANSI256") => result[t] = d.Light.ANSI256
                /\ (~b /\ p = "ANSI") => result[t] = d.Light.ANSI
                /\ p \notin {"TrueColor", "ANSI256", "ANSI"} => result[t] = <<>>
                /\ allowed[t][1] # {} => b \in allowed[t][1]
                /\ allowed[t][2] # {} => p \in allowed[t][2]

\* C8 witness: after SetHasDarkBackground(true) and SetColorProfile(ANSI256)
\* value() returned the ANSI256 field of Dark, which no other field equals.
C8_Witness ==
    \E t \in Threads :
        /\ ValueReturned(t, "CompleteAdaptiveColor")
        /\ allowed[t] = <<{TRUE}, {"ANSI256"}>>
        /\ result[t] = call[t].d.Dark.ANSI256
        /\ result[t] \notin {call[t].d.Dark.TrueColor, call[t].d.Dark.ANSI,
                             call[t].d.Light.TrueColor, call[t].d.Light.ANSI256,
                             call[t].d.Light.ANSI, <<>>}

\* the hex strings of s as ColorProfile().Color(s) resolves it under p
ResolvedHex(p, s) == {FormatHex(ConvertToRGB(h).rgb) : h \in Profile_Color(p, s)}

\* C9: GradientColour.value() with Steps = 0 returns the Start colour, for
\* every Position.
C9_StepsZeroYieldsStart ==
    \A t \in Threads :
        (ValueReturned(t, "GradientColour") /\ call[t].d.Steps = 0)
            => result[t] \in ResolvedHex(gets[t][1], call[t].d.Start)

\* C10: for Steps > 0, GradientColour.value() at a Position below 0 returns
\* what it returns at Position 0, and at a Position above Steps what it
\* returns at Position = Steps.
C10_PositionClamped ==
    \A t \in Threads :
        (ValueReturned(t, "GradientColour") /\ call[t].d.Steps > 0) =>
            LET d == call[t].d IN
            /\ d.Position < 0 =>
                result[t] \in GradientColour_value([d EXCEPT !.Position = 0],
                                                   gets[t][1], gets[t][2])
            /\ d.Position > d.Steps =>
                result[t] \in GradientColour_value([d EXCEPT !.Position = d.Steps],
                                                   gets[t][1], gets[t][2])

\* C11: for Steps > 0 (Start and End valid hex colours), GradientColour
\* value() at Position 0 returns the Start hex colour and at Position =
\* Steps the End hex colour, whatever profile the detector returned.
C11_GradientEndpoints ==
    \A t \in Threads :
        (ValueReturned(t, "GradientColour") /\ call[t].d.Steps > 0) =>
            /\ call[t].d.Position = 0 => result[t] = call[t].d.Start
            /\ call[t].d.Position = call[t].d.Steps => result[t] = call[t].d.End

RGBAReturned(t) == pc[t] = "ret" /\ call[t].recv # "lipgloss" /\ call[t].method = "RGBA"

OpaqueBlack == <<0, 0, 0, 65535>>

\* C12: RGBA() of every variant, on any field strings and under every
\* profile and background, returns without a fault, with alpha 0xFFFF; it
\* returns opaque black for NoColor, and for Color when the string is empty
\* or unparseable or the profile read was Ascii.
C12_RGBATotal ==
    \A t \in Threads :
        RGBAReturned(t) =>
            /\ result[t].ok
            /\ result[t].rgba[4] = 65535
            /\ call[t].recv = "NoColor" => result[t].rgba = OpaqueBlack
            /\ (call[t].recv = "Color"
                    /\ (call[t].d \in MalformedColors \/ gets[t][1] = "Ascii"))
                => result[t].rgba = OpaqueBlack

\* C13: under fair scheduling every call that a goroutine has started
\* eventually returns, whatever the other goroutines call meanwhile.
C13_EveryCallReturns ==
    \A t \in Threads : (pc[t] # "idle") ~> (pc[t] = "idle")

\* C13 witness: a Set call is queued on the write lock while the first
\* getter runs detection inside the Once, holding the read lock.
C13_Witness ==
    \E t, u \in Threads :
        /\ pc[t] = "LockWait" /\ colorProfileMtx.writer = t
        /\ pc[u] = "f" /\ u \in colorProfileMtx.readers
        /\ getColorProfile = "running"

\* what color() yields when every detector read of the call returns the
\* same profile p and the same background b
ColorsAt(c, p, b) ==
    UNION {Colors(c, s, [i \in 1..Len(s) |->
                            IF s[i] = "HasDarkBackground" THEN b ELSE p]) :
            s \in Scripts(c)}

\* C14: the handle a color() call returns is the handle of the descriptor
\* resolved against one (profile, background) pair, also when Set calls
\* run during the call: never a value selected under one profile and
\* mapped through another.
C14_ColorAgainstOneState ==
    \A t \in Threads :
        (pc[t] = "ret" /\ call[t].recv # "lipgloss" /\ call[t].method = "color")
            => \E p \in Profiles, b \in BOOLEAN : result[t] \in ColorsAt(call[t], p, b)

\* C15: a detector's explicit flag is raised only by the flag step of its
\* Set call and is never lowered; its Once only moves forward (fresh,
\* running, done); and while the flag is up and detection has not run,
\* detection does not run.
C15_DetectorStateMachine ==
    [][/\ explicitColorProfile => explicitColorProfile'
       /\ (~explicitColorProfile /\ explicitColorProfile') =>
              \E t \in Threads : /\ pc[t] = "setflag" /\ pc'[t] = "Unlock"
                                 /\ call[t].method = "SetColorProfile"
       /\ getColorProfile' # getColorProfile =>
              <<getColorProfile, getColorProfile'>> \in
                    {<<"fresh", "running">>, <<"running", "done">>}
       /\ (explicitColorProfile /\ detections.ColorProfile = 0) =>
              /\ detections'.ColorProfile = 0
              /\ getColorProfile' = "fresh"
       /\ explicitBackgroundColor => explicitBackgroundColor'
       /\ (~explicitBackgroundColor /\ explicitBackgroundColor') =>
              \E t \in Threads : /\ pc[t] = "setflag" /\ pc'[t] = "Unlock"
                                 /\ call[t].method = "SetHasDarkBackground"
       /\ getBackgroundColor' # getBackgroundColor =>
              <<getBackgroundColor, getBackgroundColor'>> \in
                    {<<"fresh", "running">>, <<"running", "done">>}
       /\ (explicitBackgroundColor /\ detections.HasDarkBackground = 0) =>
              /\ detections'.HasDarkBackground = 0
              /\ getBackgroundColor' = "fresh"
      ]_vars

\* C15 witness: the background detector is Forced without detection ever
\* having run (a getter has returned the set value, the Once still fresh)
\* while the profile detector is Resolved by detection.
C15_Witness ==
    \E t \in Threads :
        /\ Returned(t, "HasDarkBackground")
        /\ explicitBackgroundColor /\ getBackgroundColor = "fresh"
        /\ detections.HasDarkBackground = 0
        /\ result[t] = hasDarkBackground /\ result[t] # envHasDarkBackground
        /\ ~explicitColorProfile /\ getColorProfile = "done"
        /\ detections.ColorProfile = 1

\* goroutine t is inside the getter or the Set function of detector fn
InsideDetector(t, fn) ==
    \/ pc[t] \in {"RLock", "check", "f", "RUnlock"} /\ CurFn(t) = fn
    \/ pc[t] \in {"Lock", "LockWait", "setval", "setflag", "Unlock"}
       /\ call[t].method = SetterOf(fn)

\* C16: a step of ColorProfile or SetColorProfile leaves hasDarkBackground,
\* its explicit flag and its Once unchanged and runs no background
\* detection, and a step of HasDarkBackground or SetHasDarkBackground leaves
\* the three profile variables unchanged and runs no profile detection; a
\* first getter whose own flag is down detects, whatever the state of the
\* other detector.
C16_DetectorsIndependent ==
    [][\A t \in Threads :
          pc'[t] # pc[t] =>
            /\ InsideDetector(t, "ColorProfile") =>
                  /\ backgroundVars' = backgroundVars
                  /\ detections'.HasDarkBackground = detections.HasDarkBackground
            /\ InsideDetector(t, "HasDarkBackground") =>
                  /\ profileVars' = profileVars
                  /\ detections'.ColorProfile = detections.ColorProfile
            /\ (pc[t] = "check" /\ CurFn(t) = "HasDarkBackground"
                    /\ ~explicitBackgroundColor /\ getBackgroundColor = "fresh")
                  => pc'[t] = "f"
            /\ (pc[t] = "check" /\ CurFn(t) = "ColorProfile"
                    /\ ~explicitColorProfile /\ getColorProfile = "fresh")
                  => pc'[t] = "f"
      ]_vars

\* C16 witness: SetColorProfile has returned with no profile detection ever
\* run, and a later HasDarkBackground() still detected and returned the
\* detected (dark) background.
C16_Witness ==
    \E t \in Threads :
        /\ Returned(t, "HasDarkBackground")
        /\ explicitColorProfile /\ lastSet.ColorProfile # {}
        /\ detections.ColorProfile = 0 /\ getColorProfile = "fresh"
        /\ ~explicitBackgroundColor /\ getBackgroundColor = "done"
        /\ detections.HasDarkBackground = 1
        /\ envHasDarkBackground /\ result[t]

====
